---- MODULE Spec2Model ----
(***************************************************************************)
(* A model of src/src/jwz.ts: the JWZ token (RawJSONWebZeroknowledge and   *)
(* Token), its two parsers, prove, verify and the compact serialization.   *)
(*                                                                         *)
(* Texts are sequences of character codes, so that the base64 conversions  *)
(* (atob, btoa) and the JSON conversions (JSON.stringify, JSON.parse) are  *)
(* computed character by character, as the runtime computes them.          *)
(***************************************************************************)
EXTENDS Integers, Sequences, FiniteSets, TLC

(***************************************************************************)
(* Texts                                                                   *)
(***************************************************************************)

\* The printable ASCII characters, in code order: Printable[i] has code 31 + i
\* (the grave accent, code 96, is left out: no text of the model holds it).
Printable ==
  << " ", "!", "\"", "#", "$", "%", "&", "'", "(", ")", "*", "+", ",", "-", ".", "/",
     "0", "1", "2", "3", "4", "5", "6", "7", "8", "9", ":", ";", "<", "=", ">", "?",
     "@", "A", "B", "C", "D", "E", "F", "G", "H", "I", "J", "K", "L", "M", "N", "O",
     "P", "Q", "R", "S", "T", "U", "V", "W", "X", "Y", "Z", "[", "\\", "]", "^", "_",
     "",  "a", "b", "c", "d", "e", "f", "g", "h", "i", "j", "k", "l", "m", "n", "o",
     "p", "q", "r", "s", "t", "u", "v", "w", "x", "y", "z", "{", "|", "}", "~" >>

\* The code of a printable ASCII character.
Code(ch) == 31 + (CHOOSE i \in 1..Len(Printable) : Printable[i] = ch)

\* The text (sequence of codes) spelled by a tuple of characters.
T(chars) == [i \in 1..Len(chars) |-> Code(chars[i])]

\* A character outside Latin-1 (the euro sign, U+20AC).
Euro == <<8364>>

Quote  == Code("\"")
BSlash == Code("\\")
Dot    == Code(".")
LBrace == Code("{")
RBrace == Code("}")
LBrack == Code("[")
RBrack == Code("]")
Colon  == Code(":")
Comma  == Code(",")
Equals == Code("=")

\* ASCII whitespace: tab, line feed, form feed, carriage return, space
\* (String.prototype.trim also strips vertical tab).
IsB64Space(c) == c \in {9, 10, 12, 13, 32}
IsTrimSpace(c) == c \in {9, 10, 11, 12, 13, 32}
IsJsonSpace(c) == c \in {9, 10, 13, 32}

\* An operation's outcome: a value, or the error thrown.
Ok(v)    == [ok |-> TRUE, err |-> "", v |-> v]
Fail(e)  == [ok |-> FALSE, err |-> e, v |-> <<>>]

(***************************************************************************)
(* base64: btoa encodes, atob decodes                                      *)
(***************************************************************************)

B64Char(n) ==
  IF n < 26 THEN 65 + n
  ELSE IF n < 52 THEN 97 + (n - 26)
  ELSE IF n < 62 THEN 48 + (n - 52)
  ELSE IF n = 62 THEN 43 ELSE 47

B64Val(c) ==
  IF c >= 65 /\ c <= 90 THEN c - 65
  ELSE IF c >= 97 /\ c <= 122 THEN c - 97 + 26
  ELSE IF c >= 48 /\ c <= 57 THEN c - 48 + 52
  ELSE IF c = 43 THEN 62
  ELSE IF c = 47 THEN 63 ELSE -1

\* The k-th character of the encoding of s: three bytes give four characters,
\* a last group of one or two bytes is padded with "=".
B64EncAt(s, k) ==
  LET i    == 3 * ((k - 1) \div 4) + 1
      has2 == i + 1 <= Len(s)
      has3 == i + 2 <= Len(s)
      n    == s[i] * 65536 + (IF has2 THEN s[i + 1] * 256 ELSE 0)
                           + (IF has3 THEN s[i + 2] ELSE 0)
  IN  CASE (k - 1) % 4 = 0 -> B64Char(n \div 262144)
        [] (k - 1) % 4 = 1 -> B64Char((n \div 4096) % 64)
        [] (k - 1) % 4 = 2 -> IF has2 THEN B64Char((n \div 64) % 64) ELSE Equals
        [] OTHER           -> IF has3 THEN B64Char(n % 64) ELSE Equals

B64Enc(s) == [k \in 1..(4 * ((Len(s) + 2) \div 3)) |-> B64EncAt(s, k)]

\* btoa(s): InvalidCharacterError when s holds a character above U+00FF.
btoa(s) ==
  IF \E i \in 1..Len(s) : s[i] > 255 THEN Fail("InvalidCharacterError")
  ELSE Ok(B64Enc(s))

\* The k-th byte of the decoding of s: four characters give three bytes, a
\* last group of two or three characters gives one or two.
B64DecAt(s, k) ==
  LET i    == 4 * ((k - 1) \div 3) + 1
      v(j) == IF i + j <= Len(s) THEN B64Val(s[i + j]) ELSE 0
      n    == v(0) * 262144 + v(1) * 4096 + v(2) * 64 + v(3)
  IN  CASE (k - 1) % 3 = 0 -> n \div 65536
        [] (k - 1) % 3 = 1 -> (n \div 256) % 256
        [] OTHER           -> n % 256

B64Dec(s) ==
  LET rest == Len(s) % 4
  IN  [k \in 1..(3 * (Len(s) \div 4) + (IF rest = 0 THEN 0 ELSE rest - 1))
         |-> B64DecAt(s, k)]

\* atob(s), the forgiving base64 decoding: whitespace is dropped, up to two
\* padding characters are dropped from a text whose length is a multiple of 4,
\* and the rest must be base64 characters, not 1 modulo 4 in number.
atob(s) ==
  LET d0 == SelectSeq(s, LAMBDA c : ~IsB64Space(c))
      n0 == Len(d0)
      d1 == IF n0 % 4 = 0 /\ n0 > 0 /\ d0[n0] = Equals
            THEN IF d0[n0 - 1] = Equals THEN SubSeq(d0, 1, n0 - 2)
                                        ELSE SubSeq(d0, 1, n0 - 1)
            ELSE d0
  IN  IF Len(d1) % 4 = 1 \/ \E i \in 1..Len(d1) : B64Val(d1[i]) = -1
      THEN Fail("InvalidCharacterError")
      ELSE Ok(B64Dec(d1))

(***************************************************************************)
(* JSON values, JSON.stringify and JSON.parse                              *)
(*                                                                         *)
(* A value is a string, an array, an object (its properties in insertion   *)
(* order) or null; Undefined is what a missing property reads as.          *)
(***************************************************************************)

\* Every value carries the three fields, the unused ones empty, so that any two
\* values can be compared.
JStr(t)   == [t |-> "str", s |-> t, a |-> <<>>, o |-> <<>>]
JArr(vs)  == [t |-> "arr", s |-> <<>>, a |-> vs, o |-> <<>>]
JObj(ps)  == [t |-> "obj", s |-> <<>>, a |-> <<>>, o |-> ps]
JNull     == [t |-> "null", s |-> <<>>, a |-> <<>>, o |-> <<>>]
Undefined == [t |-> "undef", s |-> <<>>, a |-> <<>>, o |-> <<>>]

Prop(k, v) == [k |-> k, v |-> v]

HasKey(ps, k) == \E i \in 1..Len(ps) : ps[i].k = k

KeyIndex(ps, k) == CHOOSE i \in 1..Len(ps) : ps[i].k = k

\* obj[k] = v on an object's properties: an existing key keeps its place.
PropsSet(ps, k, v) ==
  IF HasKey(ps, k) THEN [ps EXCEPT ![KeyIndex(ps, k)] = Prop(k, v)]
  ELSE Append(ps, Prop(k, v))

\* The decimal text of a natural number (an array index as a property name).
RECURSIVE Decimal(_)
Decimal(n) == IF n < 10 THEN <<48 + n>> ELSE Decimal(n \div 10) \o <<48 + (n % 10)>>

\* The array index a property name spells, or -1.
RECURSIVE DecimalValue(_, _)
DecimalValue(k, acc) ==
  IF k = <<>> THEN acc
  ELSE IF k[1] < 48 \/ k[1] > 57 THEN -1
  ELSE DecimalValue(Tail(k), acc * 10 + (k[1] - 48))

IndexOf(k) ==
  IF k = <<>> \/ (Len(k) > 1 /\ k[1] = 48) THEN -1 ELSE DecimalValue(k, 0)

\* value[k], the property read of JavaScript (on an object, an array or a
\* string; the runtime throws on null and undefined, see sanitized).
Get(val, k) ==
  IF val.t = "obj"
  THEN IF HasKey(val.o, k) THEN val.o[KeyIndex(val.o, k)].v ELSE Undefined
  ELSE LET i == IndexOf(k)
       IN  IF val.t = "arr" /\ i >= 0 /\ i < Len(val.a) THEN val.a[i + 1]
           ELSE IF val.t = "str" /\ i >= 0 /\ i < Len(val.s)
           THEN JStr(<<val.s[i + 1]>>)
           ELSE Undefined

\* Object.keys(value), as texts (on null and undefined the runtime throws).
ObjectKeys(val) ==
  CASE val.t = "obj" -> [i \in 1..Len(val.o) |-> val.o[i].k]
    [] val.t = "arr" -> [i \in 1..Len(val.a) |-> Decimal(i - 1)]
    [] val.t = "str" -> [i \in 1..Len(val.s) |-> Decimal(i - 1)]
    [] OTHER -> <<>>

\* !value is false: the value is truthy.
Truthy(val) ==
  CASE val.t = "str" -> val.s # <<>>
    [] val.t \in {"arr", "obj"} -> TRUE
    [] OTHER -> FALSE

\* The texts pieces[lo], ..., pieces[hi] joined, in order (by halves).
RECURSIVE Join(_, _, _)
Join(pieces, lo, hi) ==
  IF lo > hi THEN <<>>
  ELSE IF lo = hi THEN pieces[lo]
  ELSE LET mid == (lo + hi) \div 2
       IN  Join(pieces, lo, mid) \o Join(pieces, mid + 1, hi)

\* A string's characters as JSON.stringify writes them: a quote and a
\* backslash get a backslash before them.
EscapeText(s) ==
  Join([k \in 1..Len(s) |->
          IF s[k] \in {Quote, BSlash} THEN <<BSlash, s[k]>> ELSE <<s[k]>>],
       1, Len(s))

QuoteText(s) == <<Quote>> \o EscapeText(s) \o <<Quote>>

RECURSIVE Stringify(_)
RECURSIVE StringifyItems(_, _)
RECURSIVE StringifyProps(_, _)
\* JSON.stringify(value)
Stringify(val) ==
  CASE val.t = "str" -> QuoteText(val.s)
    [] val.t = "arr" -> <<LBrack>> \o StringifyItems(val.a, 1) \o <<RBrack>>
    [] val.t = "obj" -> <<LBrace>> \o StringifyProps(val.o, 1) \o <<RBrace>>
    [] OTHER -> T(<<"n", "u", "l", "l">>)

StringifyItems(vs, i) ==
  IF i > Len(vs) THEN <<>>
  ELSE (IF i > 1 THEN <<Comma>> ELSE <<>>) \o Stringify(vs[i])
       \o StringifyItems(vs, i + 1)

StringifyProps(ps, i) ==
  IF i > Len(ps) THEN <<>>
  ELSE (IF i > 1 THEN <<Comma>> ELSE <<>>) \o QuoteText(ps[i].k) \o <<Colon>>
       \o Stringify(ps[i].v) \o StringifyProps(ps, i + 1)

\* A parser's result: the value read and the position after it.
Read(v, i) == [ok |-> TRUE, v |-> v, i |-> i]
NoRead     == [ok |-> FALSE, v |-> Undefined, i |-> 0]
NoText     == [ok |-> FALSE, v |-> <<>>, i |-> 0]

\* The first position from i on that holds no JSON whitespace.
SkipSpace(s, i) ==
  LET stops == {j \in i..Len(s) : ~IsJsonSpace(s[j])}
  IN  IF stops = {} THEN Len(s) + 1 ELSE CHOOSE j \in stops : \A k \in stops : j <= k

At(s, i, c) == i <= Len(s) /\ s[i] = c

\* The number of backslashes that end just before position j, from i on.
RECURSIVE BackslashesBefore(_, _, _)
BackslashesBefore(s, i, j) ==
  IF j > i /\ s[j - 1] = BSlash THEN 1 + BackslashesBefore(s, i, j - 1) ELSE 0

\* The text of a string literal whose opening quote is before position i.  A
\* backslash after an even number of backslashes escapes the character after
\* it, which must be a quote or a backslash; the literal ends at the first
\* quote that none escapes.
ParseText(s, i) ==
  LET Escapes(k) == s[k] = BSlash /\ BackslashesBefore(s, i, k) % 2 = 0
      closers == {j \in i..Len(s) : s[j] = Quote /\ BackslashesBefore(s, i, j) % 2 = 0}
      e == CHOOSE j \in closers : \A m \in closers : j <= m
  IN  IF closers = {} THEN NoText
      ELSE IF \E k \in i..(e - 1) : s[k] < 32 THEN NoText
      ELSE IF \E k \in i..(e - 1) : Escapes(k) /\ s[k + 1] \notin {Quote, BSlash}
      THEN NoText
      ELSE [ok |-> TRUE, i |-> e + 1,
            v |-> Join([k \in i..(e - 1) |-> IF Escapes(k) THEN <<>> ELSE <<s[k]>>],
                       i, e - 1)]

RECURSIVE ParseValue(_, _)
RECURSIVE ParseItems(_, _, _)
RECURSIVE ParseProps(_, _, _)
ParseValue(s, i0) ==
  LET i == SkipSpace(s, i0)
  IN  IF At(s, i, Quote)
      THEN LET r == ParseText(s, i + 1)
           IN  IF r.ok THEN Read(JStr(r.v), r.i) ELSE NoRead
      ELSE IF At(s, i, LBrack)
      THEN IF At(s, SkipSpace(s, i + 1), RBrack)
           THEN Read(JArr(<<>>), SkipSpace(s, i + 1) + 1)
           ELSE ParseItems(s, i + 1, <<>>)
      ELSE IF At(s, i, LBrace)
      THEN IF At(s, SkipSpace(s, i + 1), RBrace)
           THEN Read(JObj(<<>>), SkipSpace(s, i + 1) + 1)
           ELSE ParseProps(s, i + 1, <<>>)
      ELSE IF i + 3 <= Len(s) /\ SubSeq(s, i, i + 3) = T(<<"n", "u", "l", "l">>)
      THEN Read(JNull, i + 4)
      ELSE NoRead

\* The items of an array after its "[" or after a ",".
ParseItems(s, i0, acc) ==
  LET r == ParseValue(s, i0)
      j == SkipSpace(s, r.i)
  IN  IF ~r.ok THEN NoRead
      ELSE IF At(s, j, Comma) THEN ParseItems(s, j + 1, Append(acc, r.v))
      ELSE IF At(s, j, RBrack) THEN Read(JArr(Append(acc, r.v)), j + 1)
      ELSE NoRead

\* The properties of an object after its "{" or after a ","; a repeated key
\* keeps its first place and takes its last value.
ParseProps(s, i0, acc) ==
  LET i == SkipSpace(s, i0)
      k == IF At(s, i, Quote) THEN ParseText(s, i + 1) ELSE NoText
      c == SkipSpace(s, k.i)
      r == IF k.ok /\ At(s, c, Colon) THEN ParseValue(s, c + 1) ELSE NoRead
      j == SkipSpace(s, r.i)
  IN  IF ~r.ok THEN NoRead
      ELSE IF At(s, j, Comma) THEN ParseProps(s, j + 1, PropsSet(acc, k.v, r.v))
      ELSE IF At(s, j, RBrace) THEN Read(JObj(PropsSet(acc, k.v, r.v)), j + 1)
      ELSE NoRead

\* JSON.parse(text): SyntaxError unless the text is one value.
JSONParse(s) ==
  LET r == ParseValue(s, 1)
  IN  IF r.ok /\ SkipSpace(s, r.i) > Len(s) THEN Ok(r.v)
      ELSE [ok |-> FALSE, err |-> "SyntaxError", v |-> Undefined]

(***************************************************************************)
(* The collaborators of ./hash, ./core/util and ./proving                  *)
(***************************************************************************)

\* hash(bytes): a deterministic pure function to an integer; distinct messages
\* are taken to hash apart (the digest is the message under a constructor).
hash(msg) == [digest |-> msg]

\* toLittleEndian(n): the fixed-width little-endian bytes of the hash, one to
\* one with it.
toLittleEndian(h) == [le |-> h]

sAlg       == T(<<"a", "l", "g">>)
sCrit      == T(<<"c", "r", "i", "t">>)
sCircuitId == T(<<"c", "i", "r", "c", "u", "i", "t", "I", "d">>)
sTyp       == T(<<"t", "y", "p">>)
sJWZ       == T(<<"J", "W", "Z">>)

\* jwz.ts:12-15
headerType      == sTyp
headerCritical  == sCrit
headerAlg       == sAlg
headerCircuitId == sCircuitId

\* The one proving method registered: alg "m1", bound to circuit "c1".
Method1 == [alg |-> T(<<"m", "1">>), circuitId |-> T(<<"c", "1">>)]
Registry == {Method1}

\* getProvingMethod(alg): the method registered under alg, or an error.
getProvingMethod(alg) ==
  IF alg.t = "str" /\ \E m \in Registry : m.alg = alg.s
  THEN [ok |-> TRUE, err |-> "", v |-> CHOOSE m \in Registry : m.alg = alg.s]
  ELSE [ok |-> FALSE, err |-> "UnknownProvingMethod", v |-> Method1]

\* prepare(preparer, hash, circuitId): the circuit inputs the caller's preparer
\* makes of the hash.
prepare(msgHash, circuitId) == [inputsOf |-> msgHash, circuit |-> circuitId]

(***************************************************************************)
(* Token                                                                   *)
(***************************************************************************)

\* getDefaultHeaders(), jwz.ts:95-102
getDefaultHeaders(alg, circuitId) ==
  << Prop(headerAlg, alg),
     Prop(headerCritical, JArr(<<JStr(headerCircuitId)>>)),
     Prop(headerCircuitId, circuitId),
     Prop(headerType, JStr(sJWZ)) >>

\* new Token(method, payload, inputsPreparer?), jwz.ts:63-81.  raw starts as
\* {} and gets header and payload; zkProof starts as {}.
NewToken(method, payload, preparer) ==
  [ method           |-> method,
    alg              |-> JStr(method.alg),
    circuitId        |-> JStr(method.circuitId),
    inputsPreparer   |-> preparer,
    header           |-> getDefaultHeaders(JStr(method.alg), JStr(method.circuitId)),
    payload          |-> payload,
    protectedHeaders |-> Undefined,
    zkp              |-> Undefined,
    zkProof          |-> JObj(<<>>) ]

\* getMessageHash() as it would be if it took the header text that prove()
\* stored, when there is one, for the header's serialization.
getMessageHashStored(tok) ==
  LET protectedHeaders == btoa(IF tok.protectedHeaders.t = "str"
                               THEN tok.protectedHeaders.s
                               ELSE Stringify(JObj(tok.header)))
      payload          == btoa(tok.payload)
  IN  IF ~protectedHeaders.ok THEN [ok |-> FALSE, err |-> protectedHeaders.err, v |-> <<>>]
      ELSE IF ~payload.ok THEN [ok |-> FALSE, err |-> payload.err, v |-> <<>>]
      ELSE [ok |-> TRUE, err |-> "",
            v |-> <<toLittleEndian(hash(protectedHeaders.v \o <<Dot>> \o payload.v))>>]

\* getMessageHash(), jwz.ts:190-203: the hash of
\* btoa(JSON.stringify(raw.header)) "." btoa(raw.payload).
getMessageHash(tok) ==
  LET protectedHeaders == btoa(Stringify(JObj(tok.header)))
      payload          == btoa(tok.payload)
  IN  IF ~protectedHeaders.ok THEN [ok |-> FALSE, err |-> protectedHeaders.err, v |-> <<>>]
      ELSE IF ~payload.ok THEN [ok |-> FALSE, err |-> payload.err, v |-> <<>>]
      ELSE [ok |-> TRUE, err |-> "",
            v |-> <<toLittleEndian(hash(protectedHeaders.v \o <<Dot>> \o payload.v))>>]

\* compactSerialize(), jwz.ts:173-183
compactSerialize(tok) ==
  IF ~Truthy(JObj(tok.header)) \/ ~Truthy(tok.protectedHeaders) \/ ~Truthy(tok.zkProof)
  THEN Fail("SerializationIncomplete")
  ELSE LET serializedProtected == atob(tok.protectedHeaders.s)
           serializedProof     == atob(Stringify(tok.zkProof))
           serializedPayload   == atob(tok.payload)
       IN  IF ~serializedProtected.ok THEN Fail(serializedProtected.err)
           ELSE IF ~serializedProof.ok THEN Fail(serializedProof.err)
           ELSE IF ~serializedPayload.ok THEN Fail(serializedPayload.err)
           ELSE Ok(serializedProtected.v \o <<Dot>> \o serializedPayload.v
                   \o <<Dot>> \o serializedProof.v)

(***************************************************************************)
(* RawJSONWebZeroknowledge.sanitized and the parsers                       *)
(***************************************************************************)

RawToken(payload, protectedHeaders, zkp) ==
  [payload |-> payload, protectedHeaders |-> protectedHeaders, zkp |-> zkp]

\* What a call saw and did: the Raw Tokens sanitized, the algs looked up, the
\* segments decoded.
Sanitizing(raw, lookups, r) ==
  [ok |-> r.ok, err |-> r.err, tok |-> r.tok, raws |-> <<raw>>, lookups |-> lookups]

NoToken == NewToken(Method1, <<>>, FALSE)
Thrown(e)    == [ok |-> FALSE, err |-> e, tok |-> NoToken]
Returned(t)  == [ok |-> TRUE, err |-> "", tok |-> t]

\* The first name of Object.keys(criticalHeaders) that headers lacks (as the
\* forEach of jwz.ts:41-47 meets it), or 0.
RECURSIVE FirstMissing(_, _, _)
FirstMissing(headers, keys, i) ==
  IF i > Len(keys) THEN 0
  ELSE IF ~Truthy(Get(headers, keys[i])) THEN i
  ELSE FirstMissing(headers, keys, i + 1)

\* sanitized(), jwz.ts:34-59
sanitized(raw) ==
  LET parsed  == JSONParse(raw.protectedHeaders)
      headers == parsed.v
      criticalHeaders == Get(headers, headerCritical)
      alg       == Get(headers, headerAlg)
      method    == getProvingMethod(alg)
      circuitId == Get(headers, headerCircuitId)
      zkp       == JSONParse(raw.zkp)
      token     == NewToken(method.v, raw.payload, FALSE)
  IN  IF raw.payload = <<>> THEN Sanitizing(raw, <<>>, Thrown("MissingPayload"))
      ELSE IF ~parsed.ok THEN Sanitizing(raw, <<>>, Thrown("SyntaxError"))
      ELSE IF headers.t = "null" \/ criticalHeaders.t \in {"undef", "null"}
      THEN Sanitizing(raw, <<>>, Thrown("TypeError"))
      ELSE IF FirstMissing(headers, ObjectKeys(criticalHeaders), 1) # 0
      THEN Sanitizing(raw, <<>>, Thrown("CriticalHeaderMissing"))
      ELSE IF ~method.ok THEN Sanitizing(raw, <<alg>>, Thrown(method.err))
      ELSE IF ~zkp.ok THEN Sanitizing(raw, <<alg>>, Thrown("SyntaxError"))
      ELSE Sanitizing(raw, <<alg>>,
             Returned([token EXCEPT !.alg = alg, !.circuitId = circuitId,
                                    !.zkProof = zkp.v]))

\* tokenStr.split('.'): the texts between the dots.
Split(s) ==
  LET dots == {i \in 1..Len(s) : s[i] = Dot}
      Nth(k) == CHOOSE i \in dots : Cardinality({j \in dots : j < i}) = k - 1
      From(k) == IF k = 1 THEN 1 ELSE Nth(k - 1) + 1
      To(k) == IF k = Cardinality(dots) + 1 THEN Len(s) ELSE Nth(k) - 1
  IN  [k \in 1..(Cardinality(dots) + 1) |-> SubSeq(s, From(k), To(k))]

\* tokenStr.trim(), at its start.
TrimStart(s) ==
  LET stops == {i \in 1..Len(s) : ~IsTrimSpace(s[i])}
  IN  IF stops = {} THEN <<>>
      ELSE SubSeq(s, CHOOSE i \in stops : \A k \in stops : i <= k, Len(s))

StartsWithBrace(s) == TrimStart(s) # <<>> /\ TrimStart(s)[1] = LBrace

NotSanitizing(decoded, r) ==
  [ok |-> r.ok, err |-> r.err, tok |-> r.tok, raws |-> <<>>, lookups |-> <<>>,
   decoded |-> decoded]

Decoding(decoded, sz) ==
  [ok |-> sz.ok, err |-> sz.err, tok |-> sz.tok, raws |-> sz.raws,
   lookups |-> sz.lookups, decoded |-> decoded]

\* parseCompact() as it would be if it refused only texts of fewer than three
\* segments.
parseCompactAtLeast3(tokenStr) ==
  LET parts        == Split(tokenStr)
      rawProtected == atob(parts[1])
      rawPayload   == atob(parts[2])
      proof        == atob(parts[3])
  IN  IF Len(parts) < 3 THEN NotSanitizing(0, Thrown("InvalidCompactSegments"))
      ELSE IF ~rawProtected.ok THEN NotSanitizing(1, Thrown(rawProtected.err))
      ELSE IF ~rawPayload.ok THEN NotSanitizing(2, Thrown(rawPayload.err))
      ELSE IF ~proof.ok THEN NotSanitizing(3, Thrown(proof.err))
      ELSE Decoding(3, sanitized(RawToken(rawPayload.v, rawProtected.v, proof.v)))

\* parseCompact(tokenStr), jwz.ts:114-135
parseCompact(tokenStr) ==
  LET parts        == Split(tokenStr)
      rawProtected == atob(parts[1])
      rawPayload   == atob(parts[2])
      proof        == atob(parts[3])
  IN  IF Len(parts) # 3 THEN NotSanitizing(0, Thrown("InvalidCompactSegments"))
      ELSE IF ~rawProtected.ok THEN NotSanitizing(1, Thrown(rawProtected.err))
      ELSE IF ~rawPayload.ok THEN NotSanitizing(2, Thrown(rawPayload.err))
      ELSE IF ~proof.ok THEN NotSanitizing(3, Thrown(proof.err))
      ELSE Decoding(3, sanitized(RawToken(rawPayload.v, rawProtected.v, proof.v)))

\* parseFull(tokenStr), jwz.ts:138-141: JSON.parse gives a plain object (or
\* null, a string, an array), which has no method sanitized.
parseFull(tokenStr) ==
  IF ~JSONParse(tokenStr).ok THEN NotSanitizing(0, Thrown("SyntaxError"))
  ELSE NotSanitizing(0, Thrown("TypeError"))

\* parse(tokenStr), jwz.ts:105-111
parse(tokenStr) ==
  IF StartsWithBrace(tokenStr) THEN parseFull(tokenStr) ELSE parseCompact(tokenStr)

\* prove(provingKey, wasm), jwz.ts:145-170.  The keys are opaque to the Token;
\* what the collaborators do is given: prepared says whether the preparer
\* returns (or throws), proof is what method.prove returns (Undefined: it
\* throws).  The result holds the Token as the call leaves it.
prove(tok, prepared, proof) ==
  LET headers == Stringify(JObj(tok.header))
      tok1    == [tok EXCEPT !.protectedHeaders = JStr(headers)]
      msgHash == getMessageHash(tok1)
      inputs  == prepare(msgHash.v[1], tok1.circuitId)
      tok2    == [tok1 EXCEPT !.zkProof = proof, !.zkp = JStr(Stringify(proof))]
      out     == compactSerialize(tok2)
      Result(t, ok, err, text, calls) ==
        [tok |-> t, ok |-> ok, err |-> err, text |-> text, proveCalls |-> calls]
  IN  IF ~msgHash.ok THEN Result(tok1, FALSE, msgHash.err, <<>>, <<>>)
      ELSE IF ~tok1.inputsPreparer
      THEN Result(tok1, FALSE, "PrepareFunctionMissing", <<>>, <<>>)
      ELSE IF ~prepared THEN Result(tok1, FALSE, "PrepareFailed", <<>>, <<>>)
      ELSE IF proof.t = "undef" THEN Result(tok1, FALSE, "ProveFailed", <<>>, <<inputs>>)
      ELSE Result(tok2, out.ok, out.err, out.v, <<inputs>>)

\* verify(verificationKey), jwz.ts:206-212.  answer is what method.verify
\* returns for the arguments it is given.
verify(tok, verificationKey, answer) ==
  LET msgHash == getMessageHash(tok)
  IN  IF ~msgHash.ok
      THEN [ok |-> FALSE, err |-> msgHash.err, bool |-> FALSE, verifyCalls |-> <<>>]
      ELSE [ok |-> TRUE, err |-> "", bool |-> answer,
            verifyCalls |-> << [msgHash |-> msgHash.v[1], proof |-> tok.zkProof,
                                key |-> verificationKey, answer |-> answer] >>]

(***************************************************************************)
(* The inputs                                                              *)
(***************************************************************************)

\* How many calls a run makes.
MaxCalls == 3

sHi  == T(<<"h", "i">>)
sKid == T(<<"k", "i", "d">>)
sV1  == T(<<"v", "1">>)
sV2  == T(<<"v", "2">>)
sFoo == T(<<"f", "o", "o">>)
sC2  == T(<<"c", "2">>)
sM2  == T(<<"m", "2">>)

\* Payloads: plain text, and text with a character outside Latin-1.
Payloads == {sHi, sHi \o Euro}

HeaderKeys   == {sKid, headerCircuitId}
HeaderValues == {JStr(sV1)}

\* What method.prove may return, and the proof a wire token carries.
Proof1 == JObj(<<Prop(T(<<"p", "i">>), JArr(<<JStr(T(<<"1">>)), JStr(T(<<"2">>))>>))>>)
Proof2 == JObj(<<Prop(T(<<"p", "i">>), JArr(<<JStr(T(<<"3">>))>>))>>)
Proofs == {Proof1, Proof2}

VerificationKeys == {"vk1", "vk2"}

\* Protected headers a wire token may carry.
HdrDefault == JObj(getDefaultHeaders(JStr(Method1.alg), JStr(Method1.circuitId)))
HdrFoo     == JObj(<< Prop(headerAlg, JStr(Method1.alg)),
                      Prop(headerCircuitId, JStr(Method1.circuitId)),
                      Prop(headerCritical, JArr(<<JStr(headerCircuitId), JStr(sFoo)>>)) >>)
HdrNoCrit  == JObj(<< Prop(headerAlg, JStr(Method1.alg)),
                      Prop(headerCircuitId, JStr(Method1.circuitId)) >>)
HdrEmptyCrit(alg, circuitId, kid) ==
  JObj(<< Prop(headerAlg, JStr(alg)), Prop(headerCritical, JArr(<<>>)),
          Prop(headerCircuitId, JStr(circuitId)), Prop(sKid, JStr(kid)) >>)
HdrIndexed == JObj(<< Prop(headerAlg, JStr(Method1.alg)),
                      Prop(headerCircuitId, JStr(Method1.circuitId)),
                      Prop(headerCritical, JArr(<<JStr(sFoo)>>)),
                      Prop(T(<<"0">>), JStr(sV1)) >>)
HdrPlain   == HdrEmptyCrit(Method1.alg, Method1.circuitId, sV1)

WireHeaders ==
  { HdrDefault, HdrFoo, HdrNoCrit, HdrIndexed, HdrPlain,
    HdrEmptyCrit(Method1.alg, Method1.circuitId, sV2),
    HdrEmptyCrit(Method1.alg, sC2, sV1),
    HdrEmptyCrit(sM2, Method1.circuitId, sV1) }

\* The Raw Tokens given to sanitized(): every header above with a payload and
\* a proof, one without payload, and two whose header or proof text is cut
\* short.
RawTokens ==
  { RawToken(sHi, Stringify(h), Stringify(Proof2)) : h \in WireHeaders }
  \cup { RawToken(<<>>, Stringify(HdrPlain), Stringify(Proof2)),
         RawToken(sHi, <<LBrace>>, Stringify(Proof2)),
         RawToken(sHi, Stringify(HdrPlain), <<LBrace>>) }

\* The compact form of a Raw Token: its three texts base64-encoded, dot-joined.
Compact(raw) ==
  btoa(raw.protectedHeaders).v \o <<Dot>> \o btoa(raw.payload).v
    \o <<Dot>> \o btoa(raw.zkp).v

sPayload          == T(<<"p", "a", "y", "l", "o", "a", "d">>)
sProtectedHeaders == T(<<"p", "r", "o", "t", "e", "c", "t", "e", "d",
                         "H", "e", "a", "d", "e", "r", "s">>)
sHeader           == T(<<"h", "e", "a", "d", "e", "r">>)
sZkp              == T(<<"z", "k", "p">>)

\* The full form of a Raw Token: one object with the four raw fields.
Full(raw) ==
  Stringify(JObj(<< Prop(sPayload, JStr(raw.payload)),
                    Prop(sProtectedHeaders, JStr(raw.protectedHeaders)),
                    Prop(sHeader, JObj(<<>>)),
                    Prop(sZkp, JStr(raw.zkp)) >>))

FullTokens ==
  { RawToken(sHi, Stringify(h), Stringify(Proof2)) : h \in {HdrPlain, HdrFoo, HdrDefault} }

sA == T(<<"A">>)

\* The texts given to parse(): compact and full forms, a full form after a
\* blank, compact texts of 1, 2, 4 and 5 segments, and one of 3 segments that
\* are not base64.
WireTexts ==
  { Compact(r) : r \in RawTokens }
  \cup { Full(r) : r \in FullTokens }
  \cup { T(<<" ">>) \o Full(RawToken(sHi, Stringify(HdrPlain), Stringify(Proof2))) }
  \cup { sA, sA \o <<Dot>> \o sA, T(<<" ">>) \o sA \o <<Dot>> \o sA,
         sA \o <<Dot>> \o sA \o <<Dot>> \o sA,
         sA \o <<Dot>> \o sA \o <<Dot>> \o sA \o <<Dot>> \o sA, <<Dot, Dot, Dot, Dot>>,
         <<>>, <<LBrace>> }

\* The calls of parse() and of sanitized(): each input with what the function
\* makes of it.
parseCalls     == { [tokenStr |-> t, result |-> parse(t)] : t \in WireTexts }
sanitizedCalls == { [raw |-> r, result |-> sanitized(r)] : r \in RawTokens }

(***************************************************************************)
(* The state machine: one Token variable of the caller, and its calls      *)
(***************************************************************************)

VARIABLES
  tok,     \* the caller's Token
  origin,  \* the Raw Token that sanitized() made tok of (none: tok was constructed)
  last,    \* the last call: its arguments, its outcome, what it did
  n        \* the calls made

vars == <<tok, origin, last, n>>

NoCall ==
  [ op |-> "new", ok |-> TRUE, err |-> "", input |-> <<>>, key |-> "",
    bool |-> FALSE, text |-> <<>>, raws |-> <<>>, lookups |-> <<>>, decoded |-> 0,
    proveCalls |-> <<>>, verifyCalls |-> <<>> ]

Init ==
  /\ tok \in { NewToken(Method1, p, f) : p \in Payloads, f \in BOOLEAN }
  /\ origin = <<>>
  /\ last = NoCall
  /\ n = 0

setHeader(key, value) ==
  /\ n < MaxCalls
  /\ tok' = [tok EXCEPT !.header = PropsSet(@, key, value)]
  /\ last' = [NoCall EXCEPT !.op = "setHeader"]
  /\ n' = n + 1
  /\ UNCHANGED origin

setPayload(payload) ==
  /\ n < MaxCalls
  /\ tok' = [tok EXCEPT !.payload = payload]
  /\ last' = [NoCall EXCEPT !.op = "setPayload"]
  /\ n' = n + 1
  /\ UNCHANGED origin

Prove(prepared, proof) ==
  /\ n < MaxCalls
  /\ LET r == prove(tok, prepared, proof)
     IN  /\ tok' = r.tok
         /\ last' = [NoCall EXCEPT !.op = "prove", !.ok = r.ok, !.err = r.err,
                                   !.text = r.text, !.proveCalls = r.proveCalls]
  /\ n' = n + 1
  /\ UNCHANGED origin

Verify(verificationKey, answer) ==
  /\ n < MaxCalls
  /\ LET r == verify(tok, verificationKey, answer)
     IN  last' = [NoCall EXCEPT !.op = "verify", !.ok = r.ok, !.err = r.err,
                                !.key = verificationKey, !.bool = r.bool,
                                !.verifyCalls = r.verifyCalls]
  /\ n' = n + 1
  /\ UNCHANGED <<tok, origin>>

CompactSerialize ==
  /\ n < MaxCalls
  /\ LET r == compactSerialize(tok)
     IN  last' = [NoCall EXCEPT !.op = "compactSerialize", !.ok = r.ok,
                                !.err = r.err, !.text = r.v]
  /\ n' = n + 1
  /\ UNCHANGED <<tok, origin>>

\* token = await x.parse(tokenStr): the caller keeps the Token returned.
Parse(call) ==
  /\ n < MaxCalls
  /\ LET r == call.result
     IN  /\ tok' = IF r.ok THEN r.tok ELSE tok
         /\ origin' = IF r.ok THEN r.raws ELSE origin
         /\ last' = [NoCall EXCEPT !.op = "parse", !.ok = r.ok, !.err = r.err,
                                   !.input = call.tokenStr, !.raws = r.raws,
                                   !.lookups = r.lookups, !.decoded = r.decoded]
  /\ n' = n + 1

\* token = await new RawJSONWebZeroknowledge(...).sanitized()
Sanitized(call) ==
  /\ n < MaxCalls
  /\ LET r == call.result
     IN  /\ tok' = IF r.ok THEN r.tok ELSE tok
         /\ origin' = IF r.ok THEN r.raws ELSE origin
         /\ last' = [NoCall EXCEPT !.op = "sanitized", !.ok = r.ok, !.err = r.err,
                                   !.raws = r.raws, !.lookups = r.lookups]
  /\ n' = n + 1

Next ==
  \/ \E k \in HeaderKeys, v \in HeaderValues : setHeader(k, v)
  \/ \E p \in Payloads : setPayload(p)
  \/ \E prepared \in BOOLEAN, proof \in Proofs \cup {Undefined} : Prove(prepared, proof)
  \/ \E vk \in VerificationKeys, answer \in BOOLEAN : Verify(vk, answer)
  \/ CompactSerialize
  \/ \E call \in parseCalls : Parse(call)
  \/ \E call \in sanitizedCalls : Sanitized(call)

Spec == Init /\ [][Next]_vars

(***************************************************************************)
(* The properties                                                          *)
(***************************************************************************)

\* The message the proof is over, as the format defines it: the base64 text of
\* the serialized header, a dot, the base64 text of the payload.
SigningInput(header, payload) ==
  btoa(Stringify(JObj(header))).v \o <<Dot>> \o btoa(payload).v

\* The properties of an object, their order aside.
Content(props) == {props[i] : i \in 1..Len(props)}

\* The text starts, blanks aside, with "{".
BraceFirst(s) ==
  \E i \in 1..Len(s) : s[i] = LBrace /\ \A j \in 1..(i - 1) : IsTrimSpace(s[j])

Dots(s) == Cardinality({i \in 1..Len(s) : s[i] = Dot})

\* prove() has stored a proof on the caller's Token.
ProofStored == tok.zkp.t = "str"

\* C1: a Token on which prove() has stored a proof compact-serializes to a text
\* that parse() turns into a Token of the same alg, circuitId, payload and proof,
\* and of a header with the same content.
C1_CompactRoundTrip ==
  ProofStored =>
    LET out  == compactSerialize(tok)
        back == parse(out.v)
    IN  /\ out.ok
        /\ back.ok
        /\ back.tok.alg = tok.alg
        /\ back.tok.circuitId = tok.circuitId
        /\ back.tok.payload = tok.payload
        /\ back.tok.zkProof = tok.zkProof
        /\ Content(back.tok.header) = Content(tok.header)

\* The Raw Token the last call sanitized had a payload and a header with a crit
\* list.
SanitizedCritList ==
  /\ last.op \in {"sanitized", "parse"}
  /\ last.raws # <<>>
  /\ last.raws[1].payload # <<>>
  /\ JSONParse(last.raws[1].protectedHeaders).ok
  /\ JSONParse(last.raws[1].protectedHeaders).v.t = "obj"
  /\ Get(JSONParse(last.raws[1].protectedHeaders).v, headerCritical).t = "arr"

\* A name the crit list of the header gives is no key of the header.
ListedNameAbsent(headers) ==
  LET crit == Get(headers, headerCritical).a
  IN  \E i \in 1..Len(crit) : crit[i].t = "str" /\ ~HasKey(headers.o, crit[i].s)

\* C2: sanitized() fails with CriticalHeaderMissing exactly when some name the
\* crit list gives is no key of the header.
C2_CriticalHeaderIff ==
  SanitizedCritList =>
    ((~last.ok /\ last.err = "CriticalHeaderMissing")
       <=> ListedNameAbsent(JSONParse(last.raws[1].protectedHeaders).v))

\* The four raw fields a full-form text decodes to.
FullFields(s) ==
  LET obj == JSONParse(s).v
  IN  RawToken(Get(obj, sPayload).s, Get(obj, sProtectedHeaders).s, Get(obj, sZkp).s)

IsFullForm(s) ==
  /\ BraceFirst(s)
  /\ JSONParse(s).ok
  /\ LET obj == JSONParse(s).v
     IN  /\ obj.t = "obj"
         /\ Get(obj, sPayload).t = "str"
         /\ Get(obj, sProtectedHeaders).t = "str"
         /\ Get(obj, sHeader).t = "obj"
         /\ Get(obj, sZkp).t = "str"

\* C3: parse() of a full-form text ends as sanitized() ends on the Raw Token of
\* its four fields: the same Token, or the same error.
C3_FullAsSanitized ==
  (last.op = "parse" /\ IsFullForm(last.input)) =>
    LET r == sanitized(FullFields(last.input))
    IN  /\ last.ok = r.ok
        /\ last.err = r.err
        /\ (r.ok => tok = r.tok)

\* C4: verify() returns what method.verify answers when given the hash of the
\* message made of the header and payload as they are at the call, the Token's
\* proof and the key.
C4_VerifyDelegates ==
  (last.op = "verify" /\ last.ok) =>
    /\ Len(last.verifyCalls) = 1
    /\ last.bool = last.verifyCalls[1].answer
    /\ last.verifyCalls[1].msgHash
         = toLittleEndian(hash(SigningInput(tok.header, tok.payload)))
    /\ last.verifyCalls[1].proof = tok.zkProof
    /\ last.verifyCalls[1].key = last.key

\* verify() has answered true on a Token whose header was set after prove()
\* stored its protected headers and proof.
C4_Witness ==
  /\ last.op = "verify" /\ last.ok /\ last.bool
  /\ ProofStored
  /\ tok.protectedHeaders.s # Stringify(JObj(tok.header))

\* C5: a prove() that fails leaves the proof object and the serialized proof as
\* they were.
C5_ProveAllOrNothing ==
  [][(last'.op = "prove" /\ ~last'.ok)
       => (tok'.zkProof = tok.zkProof /\ tok'.zkp = tok.zkp)]_vars

\* C6: compactSerialize() fails with SerializationIncomplete whenever the
\* protected-headers text or the proof is absent (the header never is).
C6_SerializationIncomplete ==
  (/\ last.op = "compactSerialize"
   /\ (tok.protectedHeaders.t = "undef" \/ tok.zkProof = JObj(<<>>)))
    => (~last.ok /\ last.err = "SerializationIncomplete")

\* C7: prove() on a Token without inputs preparer fails with
\* PrepareFunctionMissing, and method.prove is not invoked.
C7_PrepareFunctionMissing ==
  (last.op = "prove" /\ ~tok.inputsPreparer) =>
    (~last.ok /\ last.err = "PrepareFunctionMissing" /\ last.proveCalls = <<>>)

\* C8: the Token's alg and circuitId are those of its method.
C8_AlgCircuitOfMethod ==
  /\ tok.alg = JStr(tok.method.alg)
  /\ tok.circuitId = JStr(tok.method.circuitId)

\* C9: parse() of a text that does not start with "{" and is not of 3 segments
\* fails with InvalidCompactSegments, having decoded no segment, sanitized no
\* Raw Token and looked up no method.
C9_InvalidCompactSegments ==
  (last.op = "parse" /\ ~BraceFirst(last.input) /\ Dots(last.input) # 2) =>
    /\ ~last.ok
    /\ last.err = "InvalidCompactSegments"
    /\ last.decoded = 0
    /\ last.raws = <<>>
    /\ last.lookups = <<>>

\* parse() has refused a text of 4 segments.
C9_Witness ==
  /\ last.op = "parse"
  /\ ~BraceFirst(last.input)
  /\ Dots(last.input) = 3
  /\ last.err = "InvalidCompactSegments"

\* The caller's Token is as sanitized() returned it.
AsSanitized == origin # <<>> /\ tok = sanitized(origin[1]).tok

\* Another wire token of the same alg, payload and proof, whose protected
\* headers differ in content.
OtherHeaders(r1, r2) ==
  LET h1 == JSONParse(r1.protectedHeaders).v
      h2 == JSONParse(r2.protectedHeaders).v
  IN  /\ r2.payload = r1.payload
      /\ r2.zkp = r1.zkp
      /\ h2.t = "obj"
      /\ Get(h2, headerAlg) = Get(h1, headerAlg)
      /\ Content(h2.o) # Content(h1.o)

\* C10: on a Token that sanitized() returned, verify() hashes the message made
\* of the wire token's protected headers, so that a wire token with other
\* protected headers gets another hash.
C10_WireHeadersHashed ==
  (last.op = "verify" /\ last.ok /\ AsSanitized) =>
    /\ last.verifyCalls[1].msgHash
         = toLittleEndian(hash(SigningInput(JSONParse(origin[1].protectedHeaders).v.o,
                                            origin[1].payload)))
    /\ \A c \in sanitizedCalls :
         (c.result.ok /\ OtherHeaders(origin[1], c.raw))
           => getMessageHash(c.result.tok).v # <<last.verifyCalls[1].msgHash>>

====
